---------------------------- MODULE Spec2Model ----------------------------
(***************************************************************************)
(* A model of backend/server.py: the mobile-OTP signup, the organization   *)
(* and membership endpoints and the subscription ledger, over the MongoDB  *)
(* collections they read and write.                                        *)
(*                                                                         *)
(* A collection is the sequence of its documents in insertion order (users,*)
(* organizations, subscriptions; find_one returns the first match) or the  *)
(* set of its documents (otp_verifications, organization_members).  An id  *)
(* produced by uuid4 is the document's position in its collection.  Time   *)
(* is counted in minutes.  An absent organization_id is 0, an absent       *)
(* subscription_status is "none", an absent invite_code is "".             *)
(***************************************************************************)
EXTENDS Integers, Sequences, FiniteSets, TLC

\* ------------------------------------------------------------------ bounds
MaxUsers == 2
MaxOrgs == 2
MaxSubs == 2
MaxSeats == 2

\* ------------------------------------------------------- program constants
OtpTtlMinutes == 10
MonthlyDays == 30
AnnualDays == 365
AdminMonthDays == 30
DayMinutes == 24 * 60
BypassOtp == "000000"

\* ------------------------------------------------------------ input domains
Mobile(i) == "900000000" \o ToString(i)
Email(i) == "u" \o ToString(i) \o "@x.in"
Mobiles == {Mobile(i) : i \in 1..MaxUsers}
Emails == {Email(i) : i \in 1..MaxUsers}
OtpInputs == {"000000", "123456"}
InviteCodes == {"AAAAAAAA", "BBBBBBBB"}
InviteInputs == InviteCodes \cup {"ZZZZZZZZ"}
Seats == 0..MaxSeats
Plans == {"pro_owner_monthly", "pro_owner_annual", "basic"}
Cities == {"delhi"}
NameOfMobile(mobile) == "name-" \o mobile
OrgNameOf(uid) == "firm-" \o ToString(uid)

\* The instants the clock is read at: the start, the last minute an OTP sent
\* at the start is still valid and the minute after, and the minute after the
\* end of every monthly term that started in those minutes.
Instants ==
    {0, OtpTtlMinutes, OtpTtlMinutes + 1,
     MonthlyDays * DayMinutes + OtpTtlMinutes + 2}

VARIABLES
    now,        \* datetime.utcnow(), in minutes
    otps,       \* db.otp_verifications
    users,      \* db.users
    orgs,       \* db.organizations
    members,    \* db.organization_members
    subs,       \* db.subscriptions
    pricing,    \* db.pricing
    inflight,   \* the requests that have made their checks and not yet their writes
    last,       \* the request just served and its response
    hist        \* history: per mobile, none, sent, verified, resent or used

vars == <<now, otps, users, orgs, members, subs, pricing, inflight, last, hist>>
db == <<otps, users, orgs, members, subs, pricing>>

\* ----------------------------------------------------------------- queries
\* find_one: the first of the positions of the matching documents, or 0.
find_one(matching) ==
    IF matching = {} THEN 0 ELSE CHOOSE i \in matching : \A j \in matching : i <= j

UserByMobile(mobile) == find_one({i \in 1..Len(users) : users[i].mobile = mobile})
UserByEmail(email) == find_one({i \in 1..Len(users) : users[i].email = email})
OrgByInvite(code) == find_one({i \in 1..Len(orgs) : orgs[i].invite_code = code})
OrgByOwner(uid) == find_one({i \in 1..Len(orgs) : orgs[i].owner_id = uid})
\* Mutant of ActiveSubOf: any record of the user is found.
AnySubOf(uid) == find_one({i \in 1..Len(subs) : subs[i].user_id = uid})

\* find_one({"user_id": uid, "status": "active"})
ActiveSubOf(uid) ==
    find_one({i \in 1..Len(subs) : subs[i].user_id = uid /\ subs[i].status = "active"})
\* Mutant of CurrentSubOf: only a pro user has a current subscription.
CurrentSubOfProOnly(uid) ==
    find_one({i \in 1..Len(subs) :
                 /\ subs[i].user_id = uid
                 /\ users[uid].is_pro
                 /\ subs[i].status \in {"active", "pending_payment"}})

\* find_one({"user_id": uid, "status": {"$in": ["active", "pending_payment"]}})
CurrentSubOf(uid) ==
    find_one({i \in 1..Len(subs) :
                 /\ subs[i].user_id = uid
                 /\ subs[i].status \in {"active", "pending_payment"}})

\* count_documents({"organization_id": oid})
MemberCount(oid) == Cardinality({r \in members : r.organization_id = oid})
\* Mutant of EmployeeCount: the owner's row is counted too.
EmployeeCountWithOwner(oid) == Cardinality({r \in members : r.organization_id = oid})

\* count_documents({"organization_id": oid, "role": "employee"})
EmployeeCount(oid) ==
    Cardinality({r \in members : r.organization_id = oid /\ r.role = "employee"})

OtpRecords(mobile) == {r \in otps : r.mobile = mobile}
VerifiedOtpRecords(mobile) == {r \in otps : r.mobile = mobile /\ r.verified}

\* -------------------------------------------------------------- responses
\* who is the authenticated caller's id, or 0 for an endpoint without
\* authentication; args are the request's arguments, out the response body.
Resp(op, who, args, status, detail, out) ==
    [op |-> op, who |-> who, args |-> args, status |-> status,
     detail |-> detail, out |-> out]

NoResp == Resp("init", 0, <<>>, 0, "", <<>>)

generate_otp == "000000"

Ok(c) == c.status = 200
Verdict(status, detail) == [status |-> status, detail |-> detail]

\* ------------------------------------------------------------------- clock
Tick ==
    /\ \E t \in Instants : t > now /\ now' = t
    /\ UNCHANGED <<otps, users, orgs, members, subs, pricing, inflight, last, hist>>

\* The response is delivered.  The specifications below take the next
\* request once the last response is delivered.
Idle == last.op = "init"

Reply ==
    /\ ~Idle
    /\ last' = NoResp
    /\ UNCHANGED <<now, otps, users, orgs, members, subs, pricing, inflight, hist>>

\* ---------------------------------------------------------------- send_otp
\* Mutant of SendOtpRecord: the upsert leaves verified as it was.
SendOtpRecordKeepingVerified(mobile) ==
    [mobile |-> mobile, otp |-> generate_otp,
     expires_at |-> now + OtpTtlMinutes,
     verified |-> VerifiedOtpRecords(mobile) # {}]

\* The document send_otp's upsert leaves for the mobile.
SendOtpRecord(mobile) ==
    [mobile |-> mobile, otp |-> generate_otp,
     expires_at |-> now + OtpTtlMinutes, verified |-> FALSE]

send_otp(mobile) ==
    /\ otps' = (otps \ OtpRecords(mobile)) \cup {SendOtpRecord(mobile)}
    /\ hist' = [hist EXCEPT ![mobile] =
                    IF @ \in {"verified", "resent"} THEN "resent" ELSE "sent"]
    /\ last' = Resp("send_otp", 0, <<mobile>>, 200, "OTP sent successfully",
                    <<OtpTtlMinutes * 60>>)
    /\ UNCHANGED <<now, users, orgs, members, subs, pricing, inflight>>

\* -------------------------------------------------------------- verify_otp
\* Mutant of VerifyOtpCheck: the code is compared before the expiry.
VerifyOtpCheckCodeFirst(mobile, code) ==
    IF OtpRecords(mobile) = {}
    THEN Verdict(400, "OTP not found. Please request a new one.")
    ELSE LET otp_record == CHOOSE r \in OtpRecords(mobile) : TRUE
         IN IF code # otp_record.otp /\ code # BypassOtp
            THEN Verdict(400, "Invalid OTP")
            ELSE IF now > otp_record.expires_at
                 THEN Verdict(400, "OTP expired. Please request a new one.")
                 ELSE Verdict(200, "")

\* The checks of verify_otp, in the order the handler makes them.
VerifyOtpCheck(mobile, code) ==
    IF OtpRecords(mobile) = {}
    THEN Verdict(400, "OTP not found. Please request a new one.")
    ELSE LET otp_record == CHOOSE r \in OtpRecords(mobile) : TRUE
         IN IF now > otp_record.expires_at
            THEN Verdict(400, "OTP expired. Please request a new one.")
            ELSE IF code # otp_record.otp /\ code # BypassOtp
                 THEN Verdict(400, "Invalid OTP")
                 ELSE Verdict(200, "")

\* update_one({"mobile": mobile}, {"$set": {"verified": True}})
MarkVerified(mobile) ==
    {IF r.mobile = mobile THEN [r EXCEPT !.verified = TRUE] ELSE r : r \in otps}

verify_otp(mobile, code) ==
    LET c == VerifyOtpCheck(mobile, code)
        is_new_user == UserByMobile(mobile) = 0
    IN /\ last' = Resp("verify_otp", 0, <<mobile, code>>, c.status, c.detail,
                       IF Ok(c) THEN <<is_new_user>> ELSE <<>>)
       /\ IF Ok(c)
          THEN /\ otps' = MarkVerified(mobile)
               /\ hist' = [hist EXCEPT ![mobile] = "verified"]
          ELSE UNCHANGED <<otps, hist>>
       /\ UNCHANGED <<now, users, orgs, members, subs, pricing, inflight>>

\* ------------------------------------------------------------------ signup
\* The organization a signup joins: the one found by its invite code, or 0.
SignupOrg(invite_code) == IF invite_code # "" THEN OrgByInvite(invite_code) ELSE 0

\* The checks of signup, in the order the handler makes them.
SignupCheck(mobile, email, invite_code) ==
    IF VerifiedOtpRecords(mobile) = {}
    THEN Verdict(400, "Please verify your mobile number first")
    ELSE IF UserByMobile(mobile) # 0
    THEN Verdict(400, "User already exists")
    ELSE IF UserByEmail(email) # 0
    THEN Verdict(400, "Email already registered")
    ELSE LET org == SignupOrg(invite_code)
         IN IF org # 0 /\ MemberCount(org) >= orgs[org].employee_seats
            THEN Verdict(400, "Organization has no available seats")
            ELSE Verdict(200, "")

\* user_dict
SignupUser(mobile, email, city, org) ==
    [mobile |-> mobile, email |-> email, name |-> NameOfMobile(mobile),
     city |-> city, role |-> IF org # 0 THEN "employee" ELSE "owner",
     is_pro |-> FALSE, organization_id |-> org, subscription_status |-> "none"]

MemberRow(uid, oid, role) == [user_id |-> uid, organization_id |-> oid, role |-> role]

\* Mutant of SignupMembers: the row is inserted only while a seat is free.
SignupMembersIfSeat(uid, org) ==
    IF org # 0 /\ MemberCount(org) < orgs[org].employee_seats
    THEN members \cup {MemberRow(uid, org, "employee")}
    ELSE members

\* The membership rows after the signup of user uid into organization org.
SignupMembers(uid, org) ==
    IF org # 0 THEN members \cup {MemberRow(uid, org, "employee")} ELSE members

\* Mutant of SignupOtps: the record is not deleted.
SignupOtpsKept(mobile) == otps

\* delete_one({"mobile": mobile}) at the end of a signup
SignupOtps(mobile) == otps \ OtpRecords(mobile)

signup(mobile, email, city, invite_code) ==
    LET c == SignupCheck(mobile, email, invite_code)
        org == SignupOrg(invite_code)
        user_id == Len(users) + 1
    IN /\ Ok(c) => Len(users) < MaxUsers
       /\ last' = Resp("signup", 0, <<mobile, email, invite_code, city>>, c.status, c.detail,
                       IF Ok(c) THEN <<user_id, org>> ELSE <<>>)
       /\ IF Ok(c)
          THEN /\ users' = Append(users, SignupUser(mobile, email, city, org))
               /\ members' = SignupMembers(user_id, org)
               /\ otps' = SignupOtps(mobile)
               /\ hist' = [hist EXCEPT ![mobile] = "used"]
          ELSE UNCHANGED <<users, members, otps, hist>>
       /\ UNCHANGED <<now, orgs, subs, pricing, inflight>>

\* ------------------------------------------------------------ check_invite
\* Mutant of CheckInviteCheck: an organization with no seat left is not full.
CheckInviteCheckOffByOne(invite_code) ==
    LET org == OrgByInvite(invite_code)
    IN IF org = 0
       THEN Verdict(404, "Invalid invite code")
       ELSE IF orgs[org].employee_seats - MemberCount(org) < 0
            THEN Verdict(400, "Organization has no available seats")
            ELSE Verdict(200, "")

\* The checks of check_invite, in the order the handler makes them.
CheckInviteCheck(invite_code) ==
    LET org == OrgByInvite(invite_code)
    IN IF org = 0
       THEN Verdict(404, "Invalid invite code")
       ELSE IF orgs[org].employee_seats - MemberCount(org) <= 0
            THEN Verdict(400, "Organization has no available seats")
            ELSE Verdict(200, "")

\* The body check_invite returns for a valid invite.
CheckInviteBody(invite_code) ==
    LET org == OrgByInvite(invite_code)
        owner == orgs[org].owner_id
    IN <<orgs[org].name,
         IF owner \in 1..Len(users) THEN users[owner].name ELSE "Unknown",
         orgs[org].employee_seats - MemberCount(org)>>

check_invite(invite_code) ==
    LET c == CheckInviteCheck(invite_code)
    IN /\ last' = Resp("check_invite", 0, <<invite_code>>, c.status, c.detail,
                       IF Ok(c) THEN CheckInviteBody(invite_code) ELSE <<>>)
       /\ UNCHANGED <<now, otps, users, orgs, members, subs, pricing, hist, inflight>>

\* ----------------------------------------------------------------- pricing
\* Money is counted in tenths of a rupee, so that the seeded multipliers 1.0,
\* 1.2 and 2.0 are the integers 10, 12 and 20.
SUPPORTED_CITIES ==
    {"faridabad", "gurugram", "noida", "delhi", "mumbai",
     "pune", "bangalore", "hyderabad", "ahmedabad"}

DEFAULT_PRICING ==
    [pro_owner_monthly |-> 3599, pro_owner_annual |-> 35990,
     employee_tier_1 |-> 399, employee_tier_2 |-> 759, employee_tier_3 |-> 1299]

Tariffs(city, mult10) ==
    [city |-> city,
     pro_owner_monthly |-> DEFAULT_PRICING.pro_owner_monthly * mult10,
     pro_owner_annual |-> DEFAULT_PRICING.pro_owner_annual * mult10,
     employee_tier_1 |-> DEFAULT_PRICING.employee_tier_1 * mult10,
     employee_tier_2 |-> DEFAULT_PRICING.employee_tier_2 * mult10,
     employee_tier_3 |-> DEFAULT_PRICING.employee_tier_3 * mult10]

\* The rows init_default_data inserts into an empty pricing collection.
init_default_data ==
    {Tariffs(city,
             IF city = "international" THEN 20
             ELSE IF city = "other_cities" THEN 10
             ELSE IF city \in {"mumbai", "delhi", "bangalore"} THEN 12
             ELSE 10) : city \in SUPPORTED_CITIES \cup {"other_cities", "international"}}

PricingRows(city) == {r \in pricing : r.city = city}

\* str.lower(), on the city names used here.
lower(city) ==
    CASE city = "Delhi" -> "delhi"
      [] city = "PARIS" -> "paris"
      [] OTHER -> city

\* Mutant of get_pricing_for_city: no fallback to the "other_cities" row.
get_pricing_for_city_defaults(city) ==
    IF PricingRows(lower(city)) # {}
    THEN CHOOSE r \in PricingRows(lower(city)) : TRUE
    ELSE Tariffs(lower(city), 10)

get_pricing_for_city(city) ==
    LET city_lower == lower(city)
    IN IF PricingRows(city_lower) # {}
       THEN CHOOSE r \in PricingRows(city_lower) : TRUE
       ELSE IF city_lower \notin SUPPORTED_CITIES /\ PricingRows("other_cities") # {}
            THEN CHOOSE r \in PricingRows("other_cities") : TRUE
            ELSE Tariffs(city_lower, 10)

\* GET /pricing: the tariffs resolved for the given city, or for the
\* caller's city when none is given.
get_pricing(uid, city) ==
    LET user_city == IF city # "" THEN city ELSE users[uid].city
        row == get_pricing_for_city(user_city)
    IN /\ last' = Resp("get_pricing", uid, <<city>>, 200, "",
                       <<user_city, row.pro_owner_monthly, row.pro_owner_annual,
                         row.employee_tier_1, row.employee_tier_2, row.employee_tier_3>>)
       /\ UNCHANGED <<now, otps, users, orgs, members, subs, pricing, inflight, hist>>

\* PUT /admin/pricing/{city}: the upsert of the row of city.lower().
update_city_pricing(city, data) ==
    /\ pricing' = (pricing \ PricingRows(lower(city)))
                     \cup {[city |-> lower(city),
                            pro_owner_monthly |-> data.pro_owner_monthly,
                            pro_owner_annual |-> data.pro_owner_annual,
                            employee_tier_1 |-> data.employee_tier_1,
                            employee_tier_2 |-> data.employee_tier_2,
                            employee_tier_3 |-> data.employee_tier_3]}
    /\ last' = Resp("update_city_pricing", 0, <<city>>, 200, "", <<>>)
    /\ UNCHANGED <<now, otps, users, orgs, members, subs, inflight, hist>>

\* Mutant of calculate_employee_pricing: the tiers are blended.
calculate_employee_pricing_blended(seats, base_tier_1, base_tier_2, base_tier_3) ==
    IF seats <= 7 THEN seats * base_tier_1
    ELSE IF seats <= 14 THEN 7 * base_tier_1 + (seats - 7) * base_tier_2
    ELSE 7 * base_tier_1 + 7 * base_tier_2 + (seats - 14) * base_tier_3

calculate_employee_pricing(seats, base_tier_1, base_tier_2, base_tier_3) ==
    IF seats <= 7 THEN seats * base_tier_1
    ELSE IF seats <= 14 THEN seats * base_tier_2
    ELSE seats * base_tier_3

\* --------------------------------------------------- document-level updates
\* update_one({"id": uid}, {"$set": ...}) on db.users
SetUserOrg(us, uid, oid) ==
    [i \in 1..Len(us) |-> IF i = uid THEN [us[i] EXCEPT !.organization_id = oid] ELSE us[i]]

SetUserPro(us, uid, is_pro, subscription_status) ==
    [i \in 1..Len(us) |->
        IF i = uid
        THEN [us[i] EXCEPT !.is_pro = is_pro, !.subscription_status = subscription_status]
        ELSE us[i]]

\* update_one({"id": oid}, {"$set": {"employee_seats": seats}}) on db.organizations
SetOrgSeats(os, oid, seats) ==
    [i \in 1..Len(os) |-> IF i = oid THEN [os[i] EXCEPT !.employee_seats = seats] ELSE os[i]]

\* ----------------------------------------------------- create_organization
\* Mutant of CreateOrgCheck: the caller's role is not checked.
CreateOrgCheckAnyRole(uid) ==
    IF ~users[uid].is_pro
    THEN Verdict(403, "Only Pro owners can create organizations")
    ELSE IF OrgByOwner(uid) # 0
    THEN Verdict(400, "You already have an organization")
    ELSE Verdict(200, "")

\* Mutant of CreateOrgCheck: a caller whose active subscription is past its
\* end_date is not a pro owner.
CreateOrgCheckUnexpired(uid) ==
    IF \/ ~users[uid].is_pro
       \/ ActiveSubOf(uid) # 0 /\ now > subs[ActiveSubOf(uid)].end_date
    THEN Verdict(403, "Only Pro owners can create organizations")
    ELSE IF users[uid].role # "owner"
    THEN Verdict(403, "Only owners can create organizations")
    ELSE IF OrgByOwner(uid) # 0
    THEN Verdict(400, "You already have an organization")
    ELSE Verdict(200, "")

\* The checks of create_organization, in the order the handler makes them.
CreateOrgCheck(uid) ==
    IF ~users[uid].is_pro
    THEN Verdict(403, "Only Pro owners can create organizations")
    ELSE IF users[uid].role # "owner"
    THEN Verdict(403, "Only owners can create organizations")
    ELSE IF OrgByOwner(uid) # 0
    THEN Verdict(400, "You already have an organization")
    ELSE Verdict(200, "")

\* org_dict
OrgDict(uid, name, invite_code, employee_seats) ==
    [name |-> name, owner_id |-> uid, invite_code |-> invite_code,
     employee_seats |-> employee_seats]

\* Mutant of CreateOrgWrite: the owner is not enrolled as a member.
CreateOrgWriteNoOwnerRow(uid, name, invite_code, employee_seats) ==
    LET org_id == Len(orgs) + 1
    IN /\ orgs' = Append(orgs, OrgDict(uid, name, invite_code, employee_seats))
       /\ users' = SetUserOrg(users, uid, org_id)
       /\ members' = members

\* The three writes of create_organization: the organization, the owner's
\* organization_id and the owner's membership row.  generate_invite_code
\* draws the code at random: any code may come out.
CreateOrgWrite(uid, name, invite_code, employee_seats) ==
    LET org_id == Len(orgs) + 1
    IN /\ orgs' = Append(orgs, OrgDict(uid, name, invite_code, employee_seats))
       /\ users' = SetUserOrg(users, uid, org_id)
       /\ members' = members \cup {MemberRow(uid, org_id, "owner")}

create_organization(uid, employee_seats) ==
    LET c == CreateOrgCheck(uid)
    IN /\ Ok(c) => Len(orgs) < MaxOrgs
       /\ IF Ok(c)
          THEN \E invite_code \in InviteCodes :
                  /\ CreateOrgWrite(uid, OrgNameOf(uid), invite_code, employee_seats)
                  /\ last' = Resp("create_organization", uid, <<employee_seats>>,
                                  200, "", <<Len(orgs) + 1, invite_code>>)
          ELSE /\ UNCHANGED <<orgs, users, members>>
               /\ last' = Resp("create_organization", uid, <<employee_seats>>,
                               c.status, c.detail, <<>>)
       /\ UNCHANGED <<now, otps, subs, pricing, hist, inflight>>

\* ----------------------------------------------------------- remove_member
\* Mutant of RemoveMemberCheck: the caller may remove itself.
RemoveMemberCheckSelf(uid, user_id) ==
    IF users[uid].role # "owner"
    THEN Verdict(403, "Only owners can remove members")
    ELSE IF OrgByOwner(uid) = 0
    THEN Verdict(404, "Organization not found")
    ELSE IF ~\E r \in members :
                r.user_id = user_id /\ r.organization_id = OrgByOwner(uid)
    THEN Verdict(404, "Member not found")
    ELSE Verdict(200, "Member removed successfully")

\* The checks of remove_member, in the order the handler makes them.
RemoveMemberCheck(uid, user_id) ==
    IF users[uid].role # "owner"
    THEN Verdict(403, "Only owners can remove members")
    ELSE IF OrgByOwner(uid) = 0
    THEN Verdict(404, "Organization not found")
    ELSE IF user_id = uid
    THEN Verdict(400, "Cannot remove yourself")
    ELSE IF ~\E r \in members :
                r.user_id = user_id /\ r.organization_id = OrgByOwner(uid)
    THEN Verdict(404, "Member not found")
    ELSE Verdict(200, "Member removed successfully")

remove_member(uid, user_id) ==
    LET c == RemoveMemberCheck(uid, user_id)
        org == OrgByOwner(uid)
    IN /\ last' = Resp("remove_member", uid, <<user_id>>, c.status, c.detail, <<>>)
       /\ IF Ok(c)
          THEN /\ members' = {r \in members :
                                ~(r.user_id = user_id /\ r.organization_id = org)}
               /\ users' = SetUserOrg(users, user_id, 0)
          ELSE UNCHANGED <<members, users>>
       /\ UNCHANGED <<now, otps, orgs, subs, pricing, hist, inflight>>

\* --------------------------------------------------- update_employee_seats
\* Mutant of UpdateSeatsCheck: seats equal to the employee count are refused.
UpdateSeatsCheckStrict(uid, seats) ==
    IF users[uid].role # "owner"
    THEN Verdict(403, "Only owners can update seats")
    ELSE IF OrgByOwner(uid) = 0
    THEN Verdict(404, "Organization not found")
    ELSE IF seats <= EmployeeCount(OrgByOwner(uid))
    THEN Verdict(400, "Cannot reduce seats below current employee count")
    ELSE Verdict(200, "Employee seats updated")

\* The checks of update_employee_seats, in the order the handler makes them.
UpdateSeatsCheck(uid, seats) ==
    IF users[uid].role # "owner"
    THEN Verdict(403, "Only owners can update seats")
    ELSE IF OrgByOwner(uid) = 0
    THEN Verdict(404, "Organization not found")
    ELSE IF seats < EmployeeCount(OrgByOwner(uid))
    THEN Verdict(400, "Cannot reduce seats below current employee count")
    ELSE Verdict(200, "Employee seats updated")

update_employee_seats(uid, seats) ==
    LET c == UpdateSeatsCheck(uid, seats)
    IN /\ last' = Resp("update_employee_seats", uid, <<seats>>, c.status, c.detail,
                       IF Ok(c) THEN <<seats>> ELSE <<>>)
       /\ orgs' = IF Ok(c) THEN SetOrgSeats(orgs, OrgByOwner(uid), seats) ELSE orgs
       /\ UNCHANGED <<now, otps, users, members, subs, pricing, hist, inflight>>

\* ----------------------------------------------------- create_subscription
\* Mutant of CreateSubCheck: the plan is checked before the role.
CreateSubCheckPlanFirst(uid, plan_type) ==
    IF plan_type \notin {"pro_owner_monthly", "pro_owner_annual"}
    THEN Verdict(400, "Invalid plan type")
    ELSE IF users[uid].role # "owner"
    THEN Verdict(403, "Only owners can subscribe")
    ELSE Verdict(200, "Subscription created successfully (Mock)")

\* The checks of create_subscription, in the order the handler makes them.
CreateSubCheck(uid, plan_type) ==
    IF users[uid].role # "owner"
    THEN Verdict(403, "Only owners can subscribe")
    ELSE IF plan_type \notin {"pro_owner_monthly", "pro_owner_annual"}
    THEN Verdict(400, "Invalid plan type")
    ELSE Verdict(200, "Subscription created successfully (Mock)")

\* Mutant of DurationDays: every plan lasts a month.
DurationDaysMonthly(plan_type) == MonthlyDays

\* duration_days
DurationDays(plan_type) ==
    IF plan_type = "pro_owner_monthly" THEN MonthlyDays ELSE AnnualDays

\* The amount charged: the plan's tariff plus the employee add-on.
SubscriptionAmount(city, plan_type, employee_seats) ==
    LET row == get_pricing_for_city(city)
        base == IF plan_type = "pro_owner_monthly"
                THEN row.pro_owner_monthly ELSE row.pro_owner_annual
    IN IF employee_seats > 0
       THEN base + calculate_employee_pricing(employee_seats, row.employee_tier_1,
                                              row.employee_tier_2, row.employee_tier_3)
       ELSE base

\* subscription_dict
SubscriptionDict(uid, plan_type, employee_seats) ==
    [user_id |-> uid, plan_type |-> plan_type, status |-> "active",
     employee_seats |-> employee_seats,
     amount |-> SubscriptionAmount(users[uid].city, plan_type, employee_seats),
     start_date |-> now,
     end_date |-> now + DurationDays(plan_type) * DayMinutes]

\* The organizations after a purchase of employee_seats seats by owner uid.
CreateSubOrgs(uid, employee_seats) ==
    IF OrgByOwner(uid) # 0 /\ employee_seats > 0
    THEN SetOrgSeats(orgs, OrgByOwner(uid), employee_seats)
    ELSE orgs

create_subscription(uid, plan_type, employee_seats) ==
    LET c == CreateSubCheck(uid, plan_type)
    IN /\ Ok(c) => Len(subs) < MaxSubs
       /\ last' = Resp("create_subscription", uid, <<plan_type, employee_seats>>,
                       c.status, c.detail, IF Ok(c) THEN <<Len(subs) + 1>> ELSE <<>>)
       /\ IF Ok(c)
          THEN /\ subs' = Append(subs, SubscriptionDict(uid, plan_type, employee_seats))
               /\ users' = SetUserPro(users, uid, TRUE, "active")
               /\ orgs' = CreateSubOrgs(uid, employee_seats)
          ELSE UNCHANGED <<subs, users, orgs>>
       /\ UNCHANGED <<now, otps, members, pricing, hist, inflight>>

\* -------------------------------------------------------- get_subscription
SetSubStatus(ss, sid, status) ==
    [i \in 1..Len(ss) |-> IF i = sid THEN [ss[i] EXCEPT !.status = status] ELSE ss[i]]

\* datetime.utcnow() > end_date
Expired(subscription) == now > subscription.end_date

get_subscription(uid) ==
    LET sid == CurrentSubOf(uid)
    IN /\ IF sid = 0
          THEN /\ last' = Resp("get_subscription", uid, <<>>, 200, "", <<0, FALSE, "">>)
               /\ UNCHANGED <<subs, users>>
          ELSE IF Expired(subs[sid])
          THEN /\ subs' = SetSubStatus(subs, sid, "expired")
               /\ users' = SetUserPro(users, uid, FALSE, "expired")
               /\ last' = Resp("get_subscription", uid, <<>>, 200, "", <<0, TRUE, "">>)
          ELSE /\ last' = Resp("get_subscription", uid, <<>>, 200, "",
                               <<sid, FALSE, subs[sid].status>>)
               /\ UNCHANGED <<subs, users>>
       /\ UNCHANGED <<now, otps, orgs, members, pricing, hist, inflight>>

\* ------------------------------------------------------------------ get_me
\* The profile get_me returns is the one read before its own writes.
get_me(uid) ==
    LET sid == ActiveSubOf(uid)
        subscription_status ==
            IF sid = 0 THEN users[uid].subscription_status
            ELSE IF Expired(subs[sid]) THEN "expired" ELSE "active"
    IN /\ last' = Resp("get_me", uid, <<>>, 200, "",
                       <<users[uid].is_pro, users[uid].organization_id,
                         subscription_status>>)
       /\ IF sid # 0 /\ Expired(subs[sid])
          THEN /\ subs' = SetSubStatus(subs, sid, "expired")
               /\ users' = SetUserPro(users, uid, FALSE, "expired")
          ELSE UNCHANGED <<subs, users>>
       /\ UNCHANGED <<now, otps, orgs, members, pricing, hist, inflight>>

\* ----------------------------------------------- admin_update_subscription
\* An Optional[int] argument is <<>> (None) or <<n>>.
AdminEndDate(duration_months) ==
    IF duration_months # <<>> /\ duration_months[1] # 0
    THEN now + duration_months[1] * AdminMonthDays * DayMinutes
    ELSE now + AdminMonthDays * DayMinutes

\* The subscriptions after a grant to a user whose active subscription is sid.
AdminExtend(sid, duration_months, employee_seats) ==
    [i \in 1..Len(subs) |->
        IF i = sid
        THEN [subs[i] EXCEPT
                !.status = "active",
                !.end_date = AdminEndDate(duration_months),
                !.employee_seats =
                    IF employee_seats # <<>> THEN employee_seats[1] ELSE @]
        ELSE subs[i]]

\* Mutant of AdminGrantDict: the record a grant inserts awaits payment.
AdminGrantDictPending(user_id, duration_months, employee_seats) ==
    [user_id |-> user_id, plan_type |-> "admin_granted", status |-> "pending_payment",
     employee_seats |-> IF employee_seats # <<>> THEN employee_seats[1] ELSE 0,
     amount |-> 0, start_date |-> now, end_date |-> AdminEndDate(duration_months)]

\* The record a grant inserts for a user with no active subscription.
AdminGrantDict(user_id, duration_months, employee_seats) ==
    [user_id |-> user_id, plan_type |-> "admin_granted", status |-> "active",
     employee_seats |-> IF employee_seats # <<>> THEN employee_seats[1] ELSE 0,
     amount |-> 0, start_date |-> now, end_date |-> AdminEndDate(duration_months)]

\* Mutant of AdminSubs: the grant also sweeps the records past their end_date.
AdminSubsSweeping(user_id, duration_months, employee_seats) ==
    LET granted ==
            IF ActiveSubOf(user_id) # 0
            THEN AdminExtend(ActiveSubOf(user_id), duration_months, employee_seats)
            ELSE Append(subs, AdminGrantDict(user_id, duration_months, employee_seats))
    IN [i \in 1..Len(granted) |->
           IF granted[i].status = "active" /\ now > granted[i].end_date
           THEN [granted[i] EXCEPT !.status = "expired"]
           ELSE granted[i]]

\* The subscriptions after a grant.
AdminSubs(user_id, duration_months, employee_seats) ==
    IF ActiveSubOf(user_id) # 0
    THEN AdminExtend(ActiveSubOf(user_id), duration_months, employee_seats)
    ELSE Append(subs, AdminGrantDict(user_id, duration_months, employee_seats))

AdminOrgs(user_id, employee_seats) ==
    IF employee_seats # <<>> /\ OrgByOwner(user_id) # 0
    THEN SetOrgSeats(orgs, OrgByOwner(user_id), employee_seats[1])
    ELSE orgs

admin_update_subscription(user_id, is_pro, duration_months, employee_seats) ==
    /\ IF user_id \notin 1..Len(users)
       THEN /\ last' = Resp("admin_update_subscription", 0,
                            <<user_id, is_pro, duration_months, employee_seats>>,
                            404, "User not found", <<>>)
            /\ UNCHANGED <<subs, orgs, users>>
       ELSE /\ (is_pro /\ ActiveSubOf(user_id) = 0) => Len(subs) < MaxSubs
            /\ last' = Resp("admin_update_subscription", 0,
                            <<user_id, is_pro, duration_months, employee_seats>>,
                            200, "Subscription updated successfully", <<>>)
            /\ subs' = IF is_pro
                       THEN AdminSubs(user_id, duration_months, employee_seats)
                       ELSE subs
            /\ orgs' = IF is_pro THEN AdminOrgs(user_id, employee_seats) ELSE orgs
            /\ users' = SetUserPro(users, user_id, is_pro,
                                   IF is_pro THEN "active" ELSE "none")
    /\ UNCHANGED <<now, otps, members, pricing, hist, inflight>>

\* ------------------------------------- create_organization, step by step
\* Every await of a handler lets another request run.  Here the handler is
\* cut once, between its last read (the lookup of an existing organization)
\* and its first write (the insert).
MaxInflight == 2

Request(op, uid, seats) == [op |-> op, uid |-> uid, seats |-> seats]

Remove(seq, i) == [k \in 1..(Len(seq) - 1) |-> IF k < i THEN seq[k] ELSE seq[k + 1]]

create_organization_begin(uid, employee_seats) ==
    LET c == CreateOrgCheck(uid)
    IN /\ Len(inflight) < MaxInflight
       /\ IF Ok(c)
          THEN /\ inflight' = Append(inflight,
                                     Request("create_organization", uid, employee_seats))
               /\ UNCHANGED last
          ELSE /\ last' = Resp("create_organization", uid, <<employee_seats>>,
                               c.status, c.detail, <<>>)
               /\ UNCHANGED inflight
       /\ UNCHANGED <<now, otps, users, orgs, members, subs, pricing, hist>>

create_organization_finish(i) ==
    LET r == inflight[i]
    IN /\ r.op = "create_organization"
       /\ Len(orgs) < MaxOrgs
       /\ \E invite_code \in InviteCodes :
             /\ CreateOrgWrite(r.uid, OrgNameOf(r.uid), invite_code, r.seats)
             /\ last' = Resp("create_organization", r.uid, <<r.seats>>,
                             200, "", <<Len(orgs) + 1, invite_code>>)
       /\ inflight' = Remove(inflight, i)
       /\ UNCHANGED <<now, otps, subs, pricing, hist>>

\* ------------------------------------------------------ signup, step by step
\* The handler is cut once, between its last read (the count of the
\* organization's members) and its first write (the insert of the user).
\* The organization it found is in a local variable.
SignupRequest(mobile, email, city, invite_code) ==
    [op |-> "signup", mobile |-> mobile, email |-> email, city |-> city,
     invite_code |-> invite_code, org |-> SignupOrg(invite_code)]

signup_begin(mobile, email, city, invite_code) ==
    LET c == SignupCheck(mobile, email, invite_code)
    IN /\ Len(inflight) < MaxInflight
       /\ IF Ok(c)
          THEN /\ inflight' = Append(inflight,
                                     SignupRequest(mobile, email, city, invite_code))
               /\ UNCHANGED last
          ELSE /\ last' = Resp("signup", 0, <<mobile, email, invite_code, city>>,
                               c.status, c.detail, <<>>)
               /\ UNCHANGED inflight
       /\ UNCHANGED <<now, otps, users, orgs, members, subs, pricing, hist>>

signup_finish(i) ==
    LET r == inflight[i]
        user_id == Len(users) + 1
    IN /\ r.op = "signup"
       /\ users' = Append(users, SignupUser(r.mobile, r.email, r.city, r.org))
       /\ members' = SignupMembers(user_id, r.org)
       /\ otps' = SignupOtps(r.mobile)
       /\ hist' = [hist EXCEPT ![r.mobile] = "used"]
       /\ last' = Resp("signup", 0, <<r.mobile, r.email, r.invite_code, r.city>>,
                       200, "", <<user_id, r.org>>)
       /\ inflight' = Remove(inflight, i)
       /\ UNCHANGED <<now, orgs, subs, pricing>>

\* ------------------------------------------------------------ specification
Init ==
    /\ now = 0
    /\ otps = {}
    /\ users = <<>>
    /\ orgs = <<>>
    /\ members = {}
    /\ subs = <<>>
    /\ pricing = init_default_data
    /\ inflight = <<>>
    /\ last = NoResp
    /\ hist = [m \in Mobiles |-> "none"]

Uids == 1..Len(users)
OptSeats == {<<>>} \cup {<<n>> : n \in Seats}
OptMonths == {<<>>, <<2>>}

\* Every handler, served whole, on every input of the domains above.
Handlers ==
    \/ \E m \in Mobiles : send_otp(m)
    \/ \E m \in Mobiles, code \in OtpInputs : verify_otp(m, code)
    \/ \E m \in Mobiles, e \in Emails, city \in Cities, inv \in InviteInputs \cup {""} :
          signup(m, e, city, inv)
    \/ \E inv \in InviteInputs : check_invite(inv)
    \/ \E uid \in Uids, n \in Seats : create_organization(uid, n)
    \/ \E uid \in Uids, user_id \in 1..MaxUsers : remove_member(uid, user_id)
    \/ \E uid \in Uids, n \in Seats : update_employee_seats(uid, n)
    \/ \E uid \in Uids, plan \in Plans, n \in Seats : create_subscription(uid, plan, n)
    \/ \E uid \in Uids : get_subscription(uid)
    \/ \E uid \in Uids : get_me(uid)
    \/ \E uid \in Uids, city \in Cities \cup {""} : get_pricing(uid, city)
    \/ \E city \in Cities \cup {"other_cities"}, data \in
            {[k \in DOMAIN DEFAULT_PRICING |-> DEFAULT_PRICING[k] * 10]} :
          update_city_pricing(city, data)
    \/ \E user_id \in 1..MaxUsers, is_pro \in BOOLEAN, d \in OptMonths, n \in OptSeats :
          admin_update_subscription(user_id, is_pro, d, n)

Next == Reply \/ (Idle /\ (Tick \/ Handlers))

Spec == Init /\ [][Next]_vars

\* The specifications below are Spec with fewer handlers and fewer inputs:
\* each of their behaviours is a behaviour of Spec (SpecRace apart, which
\* serves create_organization in two steps).

\* Mobiles register in the order of their numbers: the mobile an OTP is
\* requested for is the first one that has no user yet, or the first one
\* that has a user.  A signup gives the email of its own number or the first
\* user's.
NextUser == IF Len(users) < MaxUsers THEN {Len(users) + 1} ELSE {}
OtpUsers == NextUser \cup (Uids \cap {1})

\* The OTP verifier and signup without invite codes, with the clock.
NextOtp ==
    \/ Reply
    \/ Idle /\ Tick
    \/ Idle /\ \E i \in OtpUsers : send_otp(Mobile(i))
    \/ Idle /\ \E i \in OtpUsers, code \in OtpInputs : verify_otp(Mobile(i), code)
    \/ Idle /\ \E i \in OtpUsers, city \in Cities :
                  \E e \in {Email(i), Email(1)} : signup(Mobile(i), e, city, "")

SpecOtp == Init /\ [][NextOtp]_vars

\* Organizations and invites.  A user becomes pro by an admin grant.
NextOrg ==
    \/ Reply
    \/ Idle /\ \E i \in OtpUsers : send_otp(Mobile(i))
    \/ Idle /\ \E i \in OtpUsers : verify_otp(Mobile(i), BypassOtp)
    \/ Idle /\ \E i \in OtpUsers, city \in Cities, inv \in InviteInputs \cup {""} :
                  \E e \in {Email(i), Email(1)} : signup(Mobile(i), e, city, inv)
    \/ Idle /\ \E inv \in InviteInputs : check_invite(inv)
    \/ Idle /\ \E uid \in Uids, n \in Seats : create_organization(uid, n)
    \/ Idle /\ \E user_id \in 1..MaxUsers, is_pro \in BOOLEAN :
                  admin_update_subscription(user_id, is_pro, <<>>, <<>>)

SpecOrg == Init /\ [][NextOrg]_vars

\* create_organization in two steps, so that two requests interleave.
NextRace ==
    \/ Reply
    \/ Idle /\ \E i \in NextUser : send_otp(Mobile(i))
    \/ Idle /\ \E i \in NextUser : verify_otp(Mobile(i), BypassOtp)
    \/ Idle /\ \E i \in NextUser, city \in Cities : signup(Mobile(i), Email(i), city, "")
    \/ Idle /\ \E user_id \in Uids : admin_update_subscription(user_id, TRUE, <<>>, <<>>)
    \/ Idle /\ \E uid \in Uids, n \in Seats : create_organization_begin(uid, n)
    \/ Idle /\ \E i \in 1..Len(inflight) : create_organization_finish(i)

SpecRace == Init /\ [][NextRace]_vars

\* Purchases, grants and reads of the subscription of the first user, with
\* the clock.
NextSub ==
    \/ Reply
    \/ Idle /\ Tick
    \/ Idle /\ \E i \in NextUser \cap {1} : send_otp(Mobile(i))
    \/ Idle /\ \E i \in NextUser \cap {1} : verify_otp(Mobile(i), BypassOtp)
    \/ Idle /\ \E i \in NextUser \cap {1}, city \in Cities :
                  signup(Mobile(i), Email(i), city, "")
    \/ Idle /\ \E uid \in Uids, plan \in Plans : create_subscription(uid, plan, 0)
    \/ Idle /\ \E uid \in Uids : get_subscription(uid)
    \/ Idle /\ \E uid \in Uids : get_me(uid)
    \/ Idle /\ \E user_id \in 1..MaxUsers, is_pro \in BOOLEAN, d \in OptMonths :
                  admin_update_subscription(user_id, is_pro, d, <<>>)

SpecSub == Init /\ [][NextSub]_vars

\* Seats and members: owners become pro by an admin grant, which may also
\* set the seats of their organization to 0; employees join by invite code.  An
\* organization is created with 0..MaxSeats seats or with 5.
NextSeats ==
    \/ Reply
    \/ Idle /\ \E i \in NextUser : send_otp(Mobile(i))
    \/ Idle /\ \E i \in NextUser : verify_otp(Mobile(i), BypassOtp)
    \/ Idle /\ \E i \in NextUser, city \in Cities, inv \in InviteCodes \cup {""} :
                  signup(Mobile(i), Email(i), city, inv)
    \/ Idle /\ \E user_id \in Uids, n \in {<<>>, <<0>>} :
                  admin_update_subscription(user_id, TRUE, <<>>, n)
    \/ Idle /\ \E uid \in Uids, n \in Seats \cup {5} : create_organization(uid, n)
    \/ Idle /\ \E uid \in Uids, user_id \in 1..MaxUsers : remove_member(uid, user_id)
    \/ Idle /\ \E uid \in Uids, n \in Seats : update_employee_seats(uid, n)

SpecSeats == Init /\ [][NextSeats]_vars

\* Purchases by owners with and without an organization and by employees: an
\* owner becomes pro by a first purchase.  The plans are the monthly one and
\* one that does not exist.
NextBuy ==
    \/ Reply
    \/ Idle /\ \E i \in NextUser : send_otp(Mobile(i))
    \/ Idle /\ \E i \in NextUser : verify_otp(Mobile(i), BypassOtp)
    \/ Idle /\ \E i \in NextUser, city \in Cities, inv \in InviteCodes \cup {""} :
                  signup(Mobile(i), Email(i), city, inv)
    \/ Idle /\ \E uid \in Uids, n \in Seats : create_organization(uid, n)
    \/ Idle /\ \E uid \in Uids, plan \in {"pro_owner_monthly", "basic"}, n \in Seats :
                  create_subscription(uid, plan, n)

SpecBuy == Init /\ [][NextBuy]_vars

\* The first purchase of the first user, for every plan, every number of
\* seats up to MaxPricedSeats and a city of each tariff: a premium city, a
\* supported one, one that has no row of its own, and "international".
MaxPricedSeats == 16

PricedCities == {"delhi", "pune", "paris", "international"}

NextPrice ==
    \/ Reply
    \/ Idle /\ \E i \in NextUser \cap {1} : send_otp(Mobile(i))
    \/ Idle /\ \E i \in NextUser \cap {1} : verify_otp(Mobile(i), BypassOtp)
    \/ Idle /\ \E i \in NextUser \cap {1}, city \in PricedCities :
                  signup(Mobile(i), Email(i), city, "")
    \/ Idle /\ \E uid \in {u \in Uids : ActiveSubOf(u) = 0}, plan \in Plans :
                  \E n \in 0..MaxPricedSeats : create_subscription(uid, plan, n)

SpecPrice == Init /\ [][NextPrice]_vars

\* Pricing resolution.  init_default_data inserts its rows one at a time, in
\* the order of all_cities, and does nothing when the collection holds a row:
\* a seeding that was interrupted leaves the first rows only, for good.  The
\* first user signs up in a city of mixed case, asks for tariffs and buys;
\* an admin writes the row of a city.
all_cities ==
    <<"faridabad", "gurugram", "noida", "delhi", "mumbai", "pune", "bangalore",
      "hyderabad", "ahmedabad", "other_cities", "international">>

SeededRows(k) == {r \in init_default_data : \E i \in 1..k : all_cities[i] = r.city}

InitResolve ==
    /\ now = 0
    /\ otps = {}
    /\ users = <<>>
    /\ orgs = <<>>
    /\ members = {}
    /\ subs = <<>>
    /\ \E k \in 1..Len(all_cities) : pricing = SeededRows(k)
    /\ inflight = <<>>
    /\ last = NoResp
    /\ hist = [m \in Mobiles |-> "none"]

ResolveCities == {"Delhi", "noida", "PARIS"}

PricingUpdates ==
    {[pro_owner_monthly |-> 10000, pro_owner_annual |-> 100000,
      employee_tier_1 |-> 1000, employee_tier_2 |-> 2000, employee_tier_3 |-> 3000]}

NextResolve ==
    \/ Reply
    \/ Idle /\ \E i \in NextUser \cap {1} : send_otp(Mobile(i))
    \/ Idle /\ \E i \in NextUser \cap {1} : verify_otp(Mobile(i), BypassOtp)
    \/ Idle /\ \E i \in NextUser \cap {1}, city \in ResolveCities :
                  signup(Mobile(i), Email(i), city, "")
    \/ Idle /\ \E uid \in Uids, city \in ResolveCities \cup {""} : get_pricing(uid, city)
    \/ Idle /\ \E city \in {"PARIS", "other_cities"}, data \in PricingUpdates :
                  update_city_pricing(city, data)
    \/ Idle /\ \E uid \in {u \in Uids : ActiveSubOf(u) = 0} :
                  \E plan \in {"pro_owner_monthly", "pro_owner_annual"} :
                      create_subscription(uid, plan, 0)

SpecResolve == InitResolve /\ [][NextResolve]_vars

\* Joins, step by step.  At the start a pro owner, granted by an admin, has
\* an organization of 2 seats: the owner's row takes one, one is free.  The
\* other users verify their mobiles and sign up with or without its code.
InitJoin ==
    /\ now = 0
    /\ otps = {}
    /\ users = <<[SignupUser(Mobile(0), Email(0), "delhi", 0) EXCEPT
                     !.is_pro = TRUE, !.subscription_status = "active",
                     !.organization_id = 1]>>
    /\ orgs = <<OrgDict(1, OrgNameOf(1), "AAAAAAAA", 2)>>
    /\ members = {MemberRow(1, 1, "owner")}
    /\ subs = <<[user_id |-> 1, plan_type |-> "admin_granted", status |-> "active",
                 employee_seats |-> 0, amount |-> 0, start_date |-> 0,
                 end_date |-> AdminMonthDays * DayMinutes]>>
    /\ pricing = init_default_data
    /\ inflight = <<>>
    /\ last = NoResp
    /\ hist = [m \in Mobiles |-> "none"]

NextJoin ==
    \/ Reply
    \/ Idle /\ \E i \in 1..MaxUsers : send_otp(Mobile(i))
    \/ Idle /\ \E i \in 1..MaxUsers : verify_otp(Mobile(i), BypassOtp)
    \/ Idle /\ \E i \in 1..MaxUsers, city \in Cities, inv \in {"AAAAAAAA", ""} :
                  /\ Len(users) + Len(inflight) <= MaxUsers
                  /\ signup_begin(Mobile(i), Email(i), city, inv)
    \/ Idle /\ \E i \in 1..Len(inflight) : signup_finish(i)
    \/ Idle /\ \E inv \in {"AAAAAAAA"} : check_invite(inv)

SpecJoin == InitJoin /\ [][NextJoin]_vars

\* Subscriptions over time, with the pro-gated create_organization.
NextExpiry ==
    \/ NextSub
    \/ Idle /\ \E uid \in Uids : create_organization(uid, 0)

SpecExpiry == Init /\ [][NextExpiry]_vars

\* ================================================================== claims
\* A step that serves a request of handler op: it answers (last' is the
\* answer) without the clock moving and without a request being left
\* between its checks and its writes.
Served(op) == last'.op = op /\ now' = now /\ Len(inflight') <= Len(inflight)

Rejected(status, detail) == last'.status = status /\ last'.detail = detail

\* A successful verify_otp has occurred after the most recent send_otp.
GateOpen(m) == hist[m] \in {"verified", "used"}

\* C1: an OTP record whose expiry has passed never authorizes signup: a
\* signup for a mobile whose record has expires_at < now fails and creates
\* no user, even when the record is verified.
C1_ExpiredOtpNeverAuthorizesSignup ==
    [][\A m \in Mobiles :
          (/\ Served("signup")
           /\ last'.args[1] = m
           /\ \E r \in OtpRecords(m) : now > r.expires_at)
              => (last'.status # 200 /\ users' = users)]_vars

\* C3: signup creates a user only if a successful verify_otp has occurred
\* after the most recent send_otp of the mobile; otherwise it is rejected and
\* creates no user and no membership row; send_otp leaves exactly one record
\* for the mobile, unverified, expiring ten minutes later.
C3_OtpGatesSignup ==
    [][\A m \in Mobiles :
          /\ (Served("signup") /\ last'.args[1] = m) =>
                /\ users' # users => GateOpen(m)
                /\ ~GateOpen(m) =>
                      /\ Rejected(400, "Please verify your mobile number first")
                      /\ users' = users
                      /\ members' = members
          /\ (Served("send_otp") /\ last'.args[1] = m) =>
                {r \in otps' : r.mobile = m} =
                    {[mobile |-> m, otp |-> "000000",
                      expires_at |-> now + OtpTtlMinutes, verified |-> FALSE]}]_vars

\* C3 witness: a signup was rejected for a mobile that was verified and then
\* sent a new OTP.
C3_Witness ==
    /\ last.op = "signup"
    /\ last.status = 400
    /\ hist[last.args[1]] = "resent"

\* C4: verify_otp fails with NotFound when the mobile has no record, else
\* with Expired when now is after the expiry, else with Invalid when the code
\* is neither the stored one nor the bypass code, each time changing nothing;
\* else it sets verified and reports is_new_user = no user has the mobile.
C4_VerifyOtpOrder ==
    [][\A m \in Mobiles, code \in OtpInputs :
          (Served("verify_otp") /\ last'.args = <<m, code>>) =>
              IF OtpRecords(m) = {}
              THEN /\ Rejected(400, "OTP not found. Please request a new one.")
                   /\ UNCHANGED <<db, hist>>
              ELSE IF \E r \in OtpRecords(m) : now > r.expires_at
              THEN /\ Rejected(400, "OTP expired. Please request a new one.")
                   /\ UNCHANGED <<db, hist>>
              ELSE IF \A r \in OtpRecords(m) : code # r.otp /\ code # "000000"
              THEN /\ Rejected(400, "Invalid OTP")
                   /\ UNCHANGED <<db, hist>>
              ELSE /\ last'.status = 200
                   /\ last'.out = <<\A i \in 1..Len(users) : users[i].mobile # m>>
                   /\ otps' = (otps \ OtpRecords(m))
                                \cup {[r EXCEPT !.verified = TRUE] : r \in OtpRecords(m)}
                   /\ UNCHANGED <<users, orgs, members, subs, pricing>>]_vars

\* C4 witness: a wrong code on an expired record was answered Expired.
C4_Witness ==
    /\ last.op = "verify_otp"
    /\ last.args[2] = "123456"
    /\ last.detail = "OTP expired. Please request a new one."

\* C2: each user has at most one subscription record with status "active".
C2_AtMostOneActive ==
    \A u \in Uids :
        Cardinality({i \in 1..Len(subs) :
                        subs[i].user_id = u /\ subs[i].status = "active"}) <= 1

\* C5: a successful signup leaves no OTP record for its mobile, a signup
\* that fails leaves the OTP records as they were, and a signup for a mobile
\* with no successful verify_otp since its last signup or send_otp fails and
\* creates no user.
C5_SignupConsumesOtp ==
    [][\A m \in Mobiles :
          (Served("signup") /\ last'.args[1] = m) =>
              /\ last'.status = 200 => {r \in otps' : r.mobile = m} = {}
              /\ last'.status # 200 => otps' = otps
              /\ hist[m] # "verified" => (last'.status # 200 /\ users' = users)]_vars

\* C5 witness: a signup with a verified record was refused for lack of seats
\* and the verified record is still there.
C5_Witness ==
    /\ last.op = "signup"
    /\ last.detail = "Organization has no available seats"
    /\ VerifiedOtpRecords(last.args[1]) # {}

\* C6: create_organization fails with Forbidden unless the caller is pro and
\* an owner, fails with Conflict (400) when the caller already owns an
\* organization, and a failure creates no organization and no membership row
\* and changes no user.
C6_CreateOrgGuards ==
    [][\A u \in 1..MaxUsers :
          (Served("create_organization") /\ last'.who = u) =>
              /\ ~(users[u].is_pro /\ users[u].role = "owner") => last'.status = 403
              /\ (/\ users[u].is_pro
                  /\ users[u].role = "owner"
                  /\ \E i \in 1..Len(orgs) : orgs[i].owner_id = u)
                     => Rejected(400, "You already have an organization")
              /\ last'.status # 200 =>
                     (orgs' = orgs /\ members' = members /\ users' = users)]_vars

\* C6 witness: a pro employee was refused.
C6_Witness ==
    /\ last.op = "create_organization"
    /\ last.status = 403
    /\ users[last.who].is_pro
    /\ users[last.who].role = "employee"

\* C7: no two organizations have the same owner_id.
C7_OneOrgPerOwner ==
    \A i, j \in 1..Len(orgs) : orgs[i].owner_id = orgs[j].owner_id => i = j

\* C8: no two organizations have the same invite_code.
C8_UniqueInviteCodes ==
    \A i, j \in 1..Len(orgs) : orgs[i].invite_code = orgs[j].invite_code => i = j

\* C9: check_invite fails with NotFound when no organization has the code;
\* otherwise, for an organization with that code, available = employee_seats
\* minus its membership rows, it fails with Full when available <= 0 and
\* else returns the organization's name, its owner's name and available.  It
\* changes nothing.
C9_CheckInvite ==
    [][\A code \in InviteInputs :
          (Served("check_invite") /\ last'.args = <<code>>) =>
              /\ UNCHANGED <<db, hist, inflight>>
              /\ IF \A i \in 1..Len(orgs) : orgs[i].invite_code # code
                 THEN Rejected(404, "Invalid invite code")
                 ELSE \E i \in 1..Len(orgs) :
                        /\ orgs[i].invite_code = code
                        /\ LET available ==
                                   orgs[i].employee_seats
                                     - Cardinality({r \in members : r.organization_id = i})
                           IN IF available <= 0
                              THEN Rejected(400, "Organization has no available seats")
                              ELSE /\ last'.status = 200
                                   /\ last'.out = <<orgs[i].name,
                                                    users[orgs[i].owner_id].name,
                                                    available>>]_vars

\* C9 witness: check_invite answered Full for an organization whose member
\* count equals its seats.
C9_Witness ==
    /\ last.op = "check_invite"
    /\ last.detail = "Organization has no available seats"
    /\ \E i \in 1..Len(orgs) :
          /\ orgs[i].invite_code = last.args[1]
          /\ orgs[i].employee_seats > 0
          /\ orgs[i].employee_seats = MemberCount(i)

\* C10: a signup carrying an invite code, with a verified OTP, a fresh mobile
\* and a fresh email, succeeds exactly when check_invite of that code would,
\* and then creates an employee member of that organization; a code matching
\* no organization makes it fail with NotFound and create no user.
C10_SignupRevalidatesInvite ==
    [][\A m \in Mobiles, code \in InviteInputs :
          (/\ Served("signup")
           /\ last'.args[1] = m
           /\ last'.args[3] = code
           /\ VerifiedOtpRecords(m) # {}
           /\ \A i \in 1..Len(users) :
                 users[i].mobile # m /\ users[i].email # last'.args[2])
              => /\ last'.status = 200 <=> CheckInviteCheck(code).status = 200
                 /\ last'.status = 200 =>
                       /\ Len(users') = Len(users) + 1
                       /\ users'[Len(users')].role = "employee"
                       /\ orgs[users'[Len(users')].organization_id].invite_code = code
                       /\ MemberRow(Len(users'), users'[Len(users')].organization_id,
                                    "employee") \in members'
                 /\ (\A i \in 1..Len(orgs) : orgs[i].invite_code # code) =>
                       (last'.status = 404 /\ users' = users)]_vars

\* C11: a seat is consumed by an employee membership only: check_invite of
\* an organization's code reports available = employee_seats minus the number
\* of its employee rows (the owner's row takes no seat), and answers Full
\* only when that number is not positive.
C11_SeatsCountEmployeesOnly ==
    [][\A code \in InviteInputs :
          (Served("check_invite") /\ last'.args = <<code>> /\ OrgByInvite(code) # 0) =>
              LET org == OrgByInvite(code)
                  free == orgs[org].employee_seats - EmployeeCount(org)
              IN IF free > 0
                 THEN last'.status = 200 /\ last'.out[3] = free
                 ELSE Rejected(400, "Organization has no available seats")]_vars

\* The membership rows of user user_id in the organization owned by uid.
RowsOf(uid, user_id) ==
    {r \in members : r.user_id = user_id /\ r.organization_id = OrgByOwner(uid)}

\* What a successful remove_member(uid, user_id) does: it deletes the rows of
\* user_id in uid's organization and clears that user's organization_id,
\* and leaves every other row, every other user and every organization.
RemoveMemberDone(uid, user_id) ==
    /\ last'.status = 200
    /\ members' = members \ RowsOf(uid, user_id)
    /\ users' = [i \in 1..Len(users) |->
                    IF i = user_id THEN [users[i] EXCEPT !.organization_id = 0]
                    ELSE users[i]]
    /\ orgs' = orgs

RemoveMemberFails(status) ==
    /\ last'.status = status
    /\ members' = members
    /\ users' = users
    /\ orgs' = orgs

\* C12 as stated: remove_member fails with Forbidden when the caller's role
\* is not owner, with BadRequest when user_id is the caller, with NotFound
\* when user_id has no membership row in the caller's organization, and
\* otherwise deletes that row and clears the user's organization_id; a
\* failure changes no row and no user.
C12_RemoveMemberAsStated ==
    [][\A uid \in 1..MaxUsers, user_id \in 1..MaxUsers :
          (Served("remove_member") /\ last'.who = uid /\ last'.args = <<user_id>>) =>
              IF users[uid].role # "owner" THEN RemoveMemberFails(403)
              ELSE IF user_id = uid THEN RemoveMemberFails(400)
              ELSE IF OrgByOwner(uid) = 0 \/ RowsOf(uid, user_id) = {}
                   THEN RemoveMemberFails(404)
              ELSE RemoveMemberDone(uid, user_id)]_vars

\* C12 amended: an owner who has no organization is answered NotFound, also
\* when user_id is the owner; the rest is as stated.
C12_RemoveMember ==
    [][\A uid \in 1..MaxUsers, user_id \in 1..MaxUsers :
          (Served("remove_member") /\ last'.who = uid /\ last'.args = <<user_id>>) =>
              IF users[uid].role # "owner" THEN RemoveMemberFails(403)
              ELSE IF OrgByOwner(uid) = 0 THEN RemoveMemberFails(404)
              ELSE IF user_id = uid THEN RemoveMemberFails(400)
              ELSE IF RowsOf(uid, user_id) = {} THEN RemoveMemberFails(404)
              ELSE RemoveMemberDone(uid, user_id)]_vars

\* C12 witness: an employee was removed: the user has no organization and
\* no membership row any more, and the owner's row is still there.
C12_Witness ==
    /\ last.op = "remove_member"
    /\ last.status = 200
    /\ users[last.args[1]].organization_id = 0
    /\ \A r \in members : r.user_id # last.args[1]
    /\ \E r \in members : r.user_id = last.who /\ r.role = "owner"

\* C13: update_employee_seats by an owner who has an organization fails with
\* BadRequest, leaving the capacity as it was, exactly when the new seats are
\* fewer than the organization's employee rows (the owner's row not counted);
\* otherwise it succeeds and sets employee_seats to the new seats.
C13_UpdateSeats ==
    [][\A uid \in 1..MaxUsers, n \in Seats :
          (/\ Served("update_employee_seats")
           /\ last'.who = uid
           /\ last'.args = <<n>>
           /\ users[uid].role = "owner"
           /\ OrgByOwner(uid) # 0) =>
              LET org == OrgByOwner(uid)
                  employees == Cardinality({r \in members :
                                   r.organization_id = org /\ r.role = "employee"})
              IN IF n < employees
                 THEN last'.status = 400 /\ orgs' = orgs
                 ELSE /\ last'.status = 200
                      /\ orgs'[org].employee_seats = n
                      /\ \A i \in 1..Len(orgs) : i # org => orgs'[i] = orgs[i]]_vars

\* C13 witness: the seats were set to the number of employees, one or more,
\* of an organization that has more membership rows than that.
C13_Witness ==
    /\ last.op = "update_employee_seats"
    /\ last.status = 200
    /\ \E org \in 1..Len(orgs) :
          /\ orgs[org].owner_id = last.who
          /\ EmployeeCount(org) >= 1
          /\ last.args[1] = EmployeeCount(org)
          /\ orgs[org].employee_seats = EmployeeCount(org)
          /\ MemberCount(org) > EmployeeCount(org)

\* The organization org has 5 seats and two membership rows: its owner's and
\* that of one employee who joined by its invite code.
FiveSeatsTwoMembers(org) ==
    /\ orgs[org].employee_seats = 5
    /\ \E e \in 1..Len(users) :
          /\ e # orgs[org].owner_id
          /\ users[e].organization_id = org
          /\ {r \in members : r.organization_id = org} =
                {MemberRow(orgs[org].owner_id, org, "owner"), MemberRow(e, org, "employee")}

\* C14 as stated: once an owner has created an organization with 5 seats and
\* a second user has joined by its code, the member count is 2 and
\* update_employee_seats(1) by the owner fails with BadRequest.
C14_ScenarioAsStated ==
    [][\A uid \in 1..MaxUsers :
          (/\ Served("update_employee_seats")
           /\ last'.who = uid
           /\ last'.args = <<1>>
           /\ OrgByOwner(uid) # 0
           /\ FiveSeatsTwoMembers(OrgByOwner(uid))) =>
              /\ MemberCount(OrgByOwner(uid)) = 2
              /\ last'.status = 400
              /\ orgs' = orgs]_vars

\* C14 amended: in that state the member count is 2 and the employee count
\* is 1, so update_employee_seats(1) succeeds and sets the seats to 1; it is
\* update_employee_seats(0) that fails with BadRequest.
C14_Scenario ==
    [][\A uid \in 1..MaxUsers, n \in {0, 1} :
          (/\ Served("update_employee_seats")
           /\ last'.who = uid
           /\ last'.args = <<n>>
           /\ OrgByOwner(uid) # 0
           /\ FiveSeatsTwoMembers(OrgByOwner(uid))) =>
              /\ MemberCount(OrgByOwner(uid)) = 2
              /\ IF n = 1
                 THEN last'.status = 200 /\ orgs'[OrgByOwner(uid)].employee_seats = 1
                 ELSE last'.status = 400 /\ orgs' = orgs]_vars

\* C14 witness: update_employee_seats(0) was refused for an organization
\* with 5 seats, its owner and one employee.
C14_Witness ==
    /\ last.op = "update_employee_seats"
    /\ last.args = <<0>>
    /\ last.status = 400
    /\ OrgByOwner(last.who) # 0
    /\ FiveSeatsTwoMembers(OrgByOwner(last.who))

\* C15: a step that changes the employee_seats of an existing organization
\* leaves them at or above the number of its employee rows.
C15_SeatsNeverBelowEmployees ==
    [][\A org \in 1..Len(orgs) :
          orgs'[org].employee_seats # orgs[org].employee_seats =>
              orgs'[org].employee_seats >=
                  Cardinality({r \in members' :
                                  r.organization_id = org /\ r.role = "employee"})]_vars

\* C16: create_subscription fails with Forbidden when the caller's role is
\* not owner, whatever the plan, and else with BadRequest when the plan is
\* neither pro_owner_monthly nor pro_owner_annual; a failure creates no
\* subscription and changes no user and no organization, so a subscription
\* is only ever created for an owner.
C16_CreateSubscriptionGuards ==
    [][\A uid \in 1..MaxUsers, plan \in Plans :
          (/\ Served("create_subscription")
           /\ last'.who = uid
           /\ last'.args[1] = plan) =>
              /\ users[uid].role # "owner" => last'.status = 403
              /\ (/\ users[uid].role = "owner"
                  /\ plan \notin {"pro_owner_monthly", "pro_owner_annual"})
                     => last'.status = 400
              /\ last'.status # 200 => (subs' = subs /\ users' = users /\ orgs' = orgs)
              /\ subs' # subs => users[uid].role = "owner"]_vars

\* C16 witness: an employee asking for a plan that does not exist was
\* answered Forbidden.
C16_Witness ==
    /\ last.op = "create_subscription"
    /\ last.status = 403
    /\ last.args[1] = "basic"
    /\ users[last.who].role = "employee"

\* C17: a successful create_subscription appends one record for the caller,
\* active, starting now and ending 30 days later for the monthly plan and
\* 365 days later for the annual one, sets the caller's is_pro and
\* subscription_status "active", and leaves the existing records as they
\* were.
C17_PurchaseRecord ==
    [][\A uid \in 1..MaxUsers, plan \in Plans :
          (/\ Served("create_subscription")
           /\ last'.who = uid
           /\ last'.args[1] = plan
           /\ last'.status = 200) =>
              /\ Len(subs') = Len(subs) + 1
              /\ \A i \in 1..Len(subs) : subs'[i] = subs[i]
              /\ LET new == subs'[Len(subs')]
                 IN /\ new.user_id = uid
                    /\ new.plan_type = plan
                    /\ new.status = "active"
                    /\ new.start_date = now
                    /\ plan = "pro_owner_monthly" =>
                           new.end_date = new.start_date + 30 * 24 * 60
                    /\ plan = "pro_owner_annual" =>
                           new.end_date = new.start_date + 365 * 24 * 60
              /\ users'[uid].is_pro
              /\ users'[uid].subscription_status = "active"]_vars

\* C17 witness: an annual purchase was made after the start, by a user who
\* already had a subscription record.
C17_Witness ==
    /\ last.op = "create_subscription"
    /\ last.status = 200
    /\ last.args[1] = "pro_owner_annual"
    /\ now > 0
    /\ Len(subs) = 2
    /\ subs[2].start_date = now
    /\ subs[2].end_date = now + 365 * 24 * 60

\* C19: after a successful purchase of s seats by an owner who has an
\* organization, that organization has s seats, for every s, 0 included; a
\* purchase by an owner without an organization changes no organization.
C19_PurchaseSetsSeats ==
    [][\A uid \in 1..MaxUsers, s \in Seats :
          (/\ Served("create_subscription")
           /\ last'.who = uid
           /\ last'.args[2] = s
           /\ last'.status = 200) =>
              IF OrgByOwner(uid) # 0
              THEN orgs'[OrgByOwner(uid)].employee_seats = s
              ELSE orgs' = orgs]_vars

\* C18: the amount of a purchase is the plan's tariff in the row resolved for
\* the buyer's city plus the employee add-on: nothing for 0 seats, seats
\* times the tier-1 rate up to 7 seats, seats times the tier-2 rate from 8 to
\* 14 seats, seats times the tier-3 rate from 15 seats on.
C18_PurchaseAmount ==
    [][\A uid \in 1..MaxUsers, plan \in Plans, n \in 0..MaxPricedSeats :
          (/\ Served("create_subscription")
           /\ last'.who = uid
           /\ last'.args = <<plan, n>>
           /\ last'.status = 200) =>
              LET row == get_pricing_for_city(users[uid].city)
                  base == IF plan = "pro_owner_monthly"
                          THEN row.pro_owner_monthly ELSE row.pro_owner_annual
                  rate == IF n = 0 THEN 0
                          ELSE IF n \in 1..7 THEN row.employee_tier_1
                          ELSE IF n \in 8..14 THEN row.employee_tier_2
                          ELSE row.employee_tier_3
              IN subs'[Len(subs')].amount = base + n * rate]_vars

\* C18 witness: 8 seats were bought in a premium city and cost 8 times the
\* tier-2 rate on top of the monthly tariff, in tenths of a rupee.
C18_Witness ==
    /\ last.op = "create_subscription"
    /\ last.status = 200
    /\ last.args = <<"pro_owner_monthly", 8>>
    /\ users[last.who].city = "delhi"
    /\ subs[Len(subs)].amount = 43188 + 8 * 9108

\* C20: a get_subscription that finds the user's subscription past its
\* end_date marks that record expired, clears the user's is_pro and reports
\* no subscription, and leaves the user without any active or pending
\* record, so that the next get_subscription reports no subscription too and
\* changes nothing; a get_subscription that finds no record changes nothing.
C20_LazyExpiry ==
    [][\A uid \in 1..MaxUsers :
          (Served("get_subscription") /\ last'.who = uid) =>
              LET sid == CurrentSubOf(uid)
              IN /\ last'.status = 200
                 /\ (sid # 0 /\ now > subs[sid].end_date) =>
                       /\ subs'[sid].status = "expired"
                       /\ ~users'[uid].is_pro
                       /\ last'.out[1] = 0
                       /\ \A i \in 1..Len(subs') :
                             subs'[i].user_id = uid =>
                                 subs'[i].status \notin {"active", "pending_payment"}
                 /\ sid = 0 =>
                       /\ last'.out[1] = 0
                       /\ UNCHANGED <<db, hist>>]_vars

\* C21: a subscription record whose status is "expired" keeps that status
\* and its end_date in every step, and a purchase or a grant for a user who
\* has no active record appends a new record.
C21_NeverResurrected ==
    [][/\ \A i \in 1..Len(subs) :
             subs[i].status = "expired" =>
                 /\ i <= Len(subs')
                 /\ subs'[i].status = "expired"
                 /\ subs'[i].end_date = subs[i].end_date
       /\ \A uid \in 1..Len(users) :
             (/\ \/ Served("create_subscription") /\ last'.who = uid
                 \/ Served("admin_update_subscription") /\ last'.args[1] = uid
                                                        /\ last'.args[2]
              /\ last'.status = 200
              /\ \A i \in 1..Len(subs) :
                    subs[i].user_id = uid => subs[i].status = "expired")
                 => /\ Len(subs') = Len(subs) + 1
                    /\ subs'[Len(subs')].user_id = uid
                    /\ subs'[Len(subs')].status = "active"]_vars

\* C21 witness: a user whose first record is expired was granted a new one.
C21_Witness ==
    /\ last.op = "admin_update_subscription"
    /\ last.status = 200
    /\ Len(subs) = 2
    /\ subs[1].status = "expired"
    /\ subs[2].status = "active"
    /\ subs[2].plan_type = "admin_granted"
    /\ subs[1].user_id = subs[2].user_id

\* C22: admin_update_subscription with is_pro = TRUE, for a user with an
\* active record, inserts nothing, leaves that record's end_date no earlier
\* than it was and overwrites its employee_seats only when seats are given;
\* for a user with none it appends one active admin_granted record of amount
\* 0; in both cases the user becomes pro with subscription_status "active".
\* For an unknown user it fails with NotFound and changes nothing.
C22_AdminGrant ==
    [][\A user_id \in 1..MaxUsers :
          (/\ Served("admin_update_subscription")
           /\ last'.args[1] = user_id
           /\ last'.args[2]) =>
              IF user_id \notin 1..Len(users)
              THEN last'.status = 404 /\ UNCHANGED db
              ELSE /\ last'.status = 200
                   /\ users'[user_id].is_pro
                   /\ users'[user_id].subscription_status = "active"
                   /\ LET sid == ActiveSubOf(user_id)
                          n == last'.args[4]
                      IN IF sid # 0
                         THEN /\ Len(subs') = Len(subs)
                              /\ subs'[sid].status = "active"
                              /\ subs'[sid].end_date >= subs[sid].end_date
                              /\ subs'[sid].employee_seats =
                                    IF n = <<>> THEN subs[sid].employee_seats ELSE n[1]
                         ELSE /\ Len(subs') = Len(subs) + 1
                              /\ \A i \in 1..Len(subs) : subs'[i] = subs[i]
                              /\ subs'[Len(subs')].user_id = user_id
                              /\ subs'[Len(subs')].plan_type = "admin_granted"
                              /\ subs'[Len(subs')].amount = 0
                              /\ subs'[Len(subs')].status = "active"]_vars

\* C23: admin_update_subscription with is_pro = FALSE, for a known user,
\* clears that user's is_pro and subscription_status and changes nothing
\* else; and get_subscription of a user who is not pro and whose current
\* record has not run out returns that record as active.
C23_AdminRevoke ==
    [][\A uid \in 1..Len(users) :
          /\ (/\ Served("admin_update_subscription")
              /\ last'.args[1] = uid
              /\ ~last'.args[2])
                 => /\ last'.status = 200
                    /\ users' = [users EXCEPT ![uid] =
                                     [@ EXCEPT !.is_pro = FALSE,
                                               !.subscription_status = "none"]]
                    /\ UNCHANGED <<otps, orgs, members, subs, pricing>>
          /\ (/\ Served("get_subscription")
              /\ last'.who = uid
              /\ ~users[uid].is_pro
              /\ \E i \in 1..Len(subs) :
                    /\ subs[i].user_id = uid
                    /\ subs[i].status = "active"
                    /\ now <= subs[i].end_date
              /\ \A j \in 1..Len(subs) :
                    (subs[j].user_id = uid /\ subs[j].status = "active")
                        => now <= subs[j].end_date)
                 => /\ last'.status = 200
                    /\ last'.out[1] # 0
                    /\ subs[last'.out[1]].user_id = uid
                    /\ last'.out[3] = "active"
                    /\ UNCHANGED db]_vars

\* C23 witness: get_subscription returned an active record to a user who is
\* not pro.
C23_Witness ==
    /\ last.op = "get_subscription"
    /\ last.out[3] = "active"
    /\ ~users[last.who].is_pro
    /\ subs[last.out[1]].status = "active"
    /\ now <= subs[last.out[1]].end_date

\* The tariffs the pricing table resolves city c to: those of the row of the
\* lower-cased c; with no such row, for a c outside the supported cities,
\* those of the "other_cities" row if there is one; else the defaults.
ResolvedTariffs(c) ==
    LET exact == {r \in pricing : r.city = lower(c)}
        other == {r \in pricing : r.city = "other_cities"}
        Of(r) == <<r.pro_owner_monthly, r.pro_owner_annual,
                   r.employee_tier_1, r.employee_tier_2, r.employee_tier_3>>
    IN IF exact # {} THEN {Of(r) : r \in exact}
       ELSE IF lower(c) \notin SUPPORTED_CITIES /\ other # {} THEN {Of(r) : r \in other}
       ELSE {<<35990, 359900, 3990, 7590, 12990>>}

\* C24: get_pricing answers with the tariffs resolved for its city, and a
\* purchase of no seats costs the plan's tariff resolved for the buyer's city.
C24_PricingResolution ==
    [][\A uid \in 1..Len(users) :
          /\ (Served("get_pricing") /\ last'.who = uid) =>
                LET c == last'.out[1]
                IN /\ c = IF last'.args[1] # "" THEN last'.args[1] ELSE users[uid].city
                   /\ <<last'.out[2], last'.out[3], last'.out[4],
                         last'.out[5], last'.out[6]>> \in ResolvedTariffs(c)
          /\ (/\ Served("create_subscription")
              /\ last'.who = uid
              /\ last'.status = 200
              /\ last'.args[2] = 0)
                 => \E t \in ResolvedTariffs(users[uid].city) :
                       subs'[Len(subs')].amount =
                           IF last'.args[1] = "pro_owner_monthly" THEN t[1] ELSE t[2]]_vars

\* C24 witness: a city outside the supported ones, with no row of its own,
\* was given the tariffs of the "other_cities" row, which are not the
\* defaults.
C24_Witness ==
    /\ last.op = "get_pricing"
    /\ last.out[1] = "PARIS"
    /\ PricingRows("paris") = {}
    /\ last.out[2] = 10000
    /\ \E r \in PricingRows("other_cities") : r.pro_owner_monthly = 10000

\* C25: a signup that has passed its seat check inserts its user and its
\* membership row whatever has been inserted since: when another join has
\* taken the seat in between, the organization ends with more membership
\* rows than employee_seats.
C25_JoinsDoNotReserveSeats ==
    [][\A i \in 1..Len(inflight) :
          (/\ inflight[i].op = "signup"
           /\ inflight[i].org # 0
           /\ inflight' = Remove(inflight, i)
           /\ last'.op = "signup"
           /\ last'.args[1] = inflight[i].mobile) =>
              LET org == inflight[i].org
              IN /\ last'.status = 200
                 /\ Len(users') = Len(users) + 1
                 /\ members' = members \cup {MemberRow(Len(users'), org, "employee")}
                 /\ Cardinality({r \in members : r.organization_id = org})
                        >= orgs[org].employee_seats
                      => Cardinality({r \in members' : r.organization_id = org})
                             > orgs'[org].employee_seats]_vars

\* C25 witness: two signups with the code of an organization that had one
\* seat free have both succeeded: it has 2 seats and 3 membership rows.
C25_Witness ==
    /\ last.op = "signup"
    /\ last.status = 200
    /\ inflight = <<>>
    /\ orgs[1].employee_seats = 2
    /\ Cardinality({r \in members : r.organization_id = 1 /\ r.role = "employee"}) = 2
    /\ MemberCount(1) = 3

\* C26 as stated: only get_subscription changes a record from active to
\* expired, and only get_subscription clears is_pro for a reason of time
\* (an admin's revocation clears it whatever the time).
C26_OnlyGetSubscriptionExpires ==
    [][/\ \A i \in 1..Len(subs) :
             (subs[i].status = "active" /\ subs'[i].status = "expired") =>
                 Served("get_subscription") /\ last'.who = subs[i].user_id
       /\ \A uid \in 1..Len(users) :
             (users[uid].is_pro /\ ~users'[uid].is_pro) =>
                 \/ Served("get_subscription") /\ last'.who = uid
                 \/ /\ Served("admin_update_subscription")
                    /\ last'.args[1] = uid
                    /\ ~last'.args[2]]_vars

\* C26: get_subscription and get_me are the only operations that make a
\* time-driven transition: a record goes from active to expired only in a
\* get_subscription or a get_me of its user, made after its end_date, which
\* also clears the user's is_pro; is_pro is cleared otherwise only by an
\* admin's revocation.
C26_OnlyReadsExpire ==
    [][/\ \A i \in 1..Len(subs) :
             (subs[i].status = "active" /\ subs'[i].status = "expired") =>
                 /\ Served("get_subscription") \/ Served("get_me")
                 /\ last'.who = subs[i].user_id
                 /\ now > subs[i].end_date
                 /\ ~users'[subs[i].user_id].is_pro
       /\ \A uid \in 1..Len(users) :
             (users[uid].is_pro /\ ~users'[uid].is_pro) =>
                 \/ /\ Served("get_subscription") \/ Served("get_me")
                    /\ last'.who = uid
                    /\ \E i \in 1..Len(subs) :
                          /\ subs[i].user_id = uid
                          /\ now > subs[i].end_date
                          /\ subs[i].status = "active"
                          /\ subs'[i].status = "expired"
                 \/ /\ Served("admin_update_subscription")
                    /\ last'.args[1] = uid
                    /\ ~last'.args[2]]_vars

\* C26 witness: a get_me has found its user's record past its end_date: the
\* profile it returns still says pro, the record is expired and is_pro is
\* cleared.
C26_Witness ==
    /\ last.op = "get_me"
    /\ last.out[1]
    /\ ~users[last.who].is_pro
    /\ \E i \in 1..Len(subs) :
          /\ subs[i].user_id = last.who
          /\ subs[i].status = "expired"
          /\ now > subs[i].end_date

\* The active records of user uid that are past their end_date.
PastDue(uid) ==
    {i \in 1..Len(subs) :
        subs[i].user_id = uid /\ subs[i].status = "active" /\ now > subs[i].end_date}

Revoked(uid) ==
    Served("admin_update_subscription") /\ last'.args[1] = uid /\ ~last'.args[2]

\* C27 as stated: while a pro user has an active record past its end_date,
\* every step other than a get_subscription of that user (and an admin's
\* revocation) leaves the record active and the user pro, and a
\* create_organization by that user, an owner with no organization, succeeds.
C27_NoSweepUntilGetSubscription ==
    [][\A uid \in 1..Len(users) :
          (PastDue(uid) # {} /\ users[uid].is_pro) =>
              /\ ~(Served("get_subscription") /\ last'.who = uid) =>
                    /\ \A i \in PastDue(uid) : subs'[i].status = "active"
                    /\ ~Revoked(uid) => users'[uid].is_pro
              /\ (/\ Served("create_organization")
                  /\ last'.who = uid
                  /\ users[uid].role = "owner"
                  /\ OrgByOwner(uid) = 0) =>
                     /\ last'.status = 200
                     /\ Len(orgs') = Len(orgs) + 1
                     /\ orgs'[Len(orgs')].owner_id = uid]_vars

\* C27: there is no expiry sweep: while a pro user has an active record past
\* its end_date, every step other than a get_subscription or a get_me of
\* that user leaves the record active, and every such step other than an
\* admin's revocation leaves the user pro; in that window a
\* create_organization by that user, an owner with no organization, succeeds.
C27_NoExpirySweep ==
    [][\A uid \in 1..Len(users) :
          (PastDue(uid) # {} /\ users[uid].is_pro) =>
              /\ ~(/\ Served("get_subscription") \/ Served("get_me")
                   /\ last'.who = uid) =>
                    /\ \A i \in PastDue(uid) : subs'[i].status = "active"
                    /\ ~Revoked(uid) => users'[uid].is_pro
              /\ (/\ Served("create_organization")
                  /\ last'.who = uid
                  /\ users[uid].role = "owner"
                  /\ OrgByOwner(uid) = 0) =>
                     /\ last'.status = 200
                     /\ Len(orgs') = Len(orgs) + 1
                     /\ orgs'[Len(orgs')].owner_id = uid]_vars

\* C27 witness: a pro owner whose active record is past its end_date has
\* just created an organization.
C27_Witness ==
    /\ last.op = "create_organization"
    /\ last.status = 200
    /\ users[last.who].is_pro
    /\ \E i \in 1..Len(subs) :
          /\ subs[i].user_id = last.who
          /\ subs[i].status = "active"
          /\ now > subs[i].end_date

\* The membership rows of organization oid with role "owner".
OwnerRows(oid) == {r \in members : r.organization_id = oid /\ r.role = "owner"}

\* C28: every organization has exactly one membership row with role
\* "owner", and it is the row of the organization's owner_id, whatever joins,
\* removals, seat updates, purchases and grants have been made.
C28_OneOwnerRow ==
    \A oid \in 1..Len(orgs) :
        OwnerRows(oid) = {MemberRow(orgs[oid].owner_id, oid, "owner")}

\* C28 witness: an owner has just removed the employee who had joined: the
\* organization is left with its owner's row alone.
C28_Witness ==
    /\ last.op = "remove_member"
    /\ last.status = 200
    /\ OrgByOwner(last.who) # 0
    /\ {r \in members : r.organization_id = OrgByOwner(last.who)}
          = {MemberRow(last.who, OrgByOwner(last.who), "owner")}

\* C29: whenever no request is in progress, a user's organization_id is an
\* organization exactly when the user has a membership row in it, and no
\* user has membership rows in two organizations.
C29_PointerAgreesWithMembership ==
    inflight = <<>> =>
        /\ \A u \in 1..Len(users), o \in 1..Len(orgs) :
              users[u].organization_id = o
                  <=> \E r \in members : r.user_id = u /\ r.organization_id = o
        /\ \A r1 \in members, r2 \in members :
              r1.user_id = r2.user_id => r1.organization_id = r2.organization_id

\* User uid has a subscription record with status "active".
HasActive(uid) == \E i \in 1..Len(subs) : subs[i].user_id = uid /\ subs[i].status = "active"

====
